---- MODULE Spec2Model ----
(***************************************************************************)
(* Model of domain-validator-web/app.py: the three checkers dns_checks,    *)
(* https_check and cert_check, and the aggregation done by index().        *)
(*                                                                         *)
(* Python strings whose characters matter (host names) are sequences of    *)
(* one-character strings; None is the empty tuple and a present value x is *)
(* the one-element tuple <<x>>.  A diagnostic message is a record          *)
(* [msg, arg]: the fixed text of the f-string and the value it embeds.     *)
(***************************************************************************)
EXTENDS Integers, Sequences, FiniteSets, TLC

VARIABLES pc, domain, expected_ip, expected_cname,
          a_lookup, cname_lookup, dns_res,
          head_outcome, https_res, peer, cert_res, data,
          cov_d, cov_san, cov_out

vars == <<pc, domain, expected_ip, expected_cname, a_lookup, cname_lookup,
          dns_res, head_outcome, https_res, peer, cert_res, data,
          cov_d, cov_san, cov_out>>

reqVars == <<pc, domain, expected_ip, expected_cname, a_lookup, cname_lookup,
             dns_res, head_outcome, https_res, peer, cert_res, data>>

covVars == <<cov_d, cov_san, cov_out>>

-----------------------------------------------------------------------------
(* Bounds of the model *)

\* most entries in a certificate's subjectAltName
MaxSans == 1
\* ticks in one day (granularity of the clock)
TicksPerDay == 2
\* the certificate's notAfter lies within this many ticks of utcnow()
MaxDelta == 2
\* most ticks between the TLS handshake and the call of utcnow()
MaxElapsed == 1
\* longest domain and SAN entry handed to covers() on its own
MaxDomainLen == 5
MaxSanLen == 3

-----------------------------------------------------------------------------
(* Python values *)

None == <<>>
Some(x) == <<x>>

Msg(m, a) == [msg |-> m, arg |-> a]

HasMsg(list, m) == \E i \in 1..Len(list) : list[i].msg = m

SeqsUpTo(S, n) == UNION {[1..k -> S] : k \in 0..n}

\* str.rstrip(".")
RECURSIVE RStripDot(_)
RStripDot(s) ==
    IF s # <<>> /\ s[Len(s)] = "."
    THEN RStripDot(SubSeq(s, 1, Len(s) - 1))
    ELSE s

\* str.startswith("*.")
StartsWithStarDot(s) == Len(s) >= 2 /\ s[1] = "*" /\ s[2] = "."

\* str.endswith(suf)
EndsWith(d, suf) ==
    /\ Len(d) >= Len(suf)
    /\ SubSeq(d, Len(d) - Len(suf) + 1, Len(d)) = suf

\* str.count(".")
CountDots(s) == Cardinality({i \in 1..Len(s) : s[i] = "."})

-----------------------------------------------------------------------------
(* cert_check.covers *)

covers(d, san) ==
    IF san = d THEN TRUE
    ELSE IF StartsWithStarDot(san)
         THEN LET suf == Tail(san)
              IN EndsWith(d, suf) /\ CountDots(d) > CountDots(suf)
         ELSE FALSE

\* any(covers(domain, s) for s in sans)
AnyCovers(d, sans) == \E i \in 1..Len(sans) : covers(d, sans[i])

-----------------------------------------------------------------------------
(* Inputs of the request and answers of the network *)

EmptyStr == <<>>
RootDot == <<".">>
NameA == <<"a">>
NameBA == <<"b", ".", "a">>
NameBADot == <<"b", ".", "a", ".">>
NameCA == <<"c", ".", "a">>
NameCADot == <<"c", ".", "a", ".">>
NameCBA == <<"c", ".", "b", ".", "a">>
WildA == <<"*", ".", "a">>

\* request.form.get("domain", "").strip()
Domains == {EmptyStr, NameA, NameBA}
\* request.form.get("expected_ip", "").strip()
ExpectedIps == {"", "10.0.0.1"}
\* request.form.get("expected_cname", "").strip()
ExpectedCnames == {EmptyStr, RootDot, NameBA, NameBADot}

\* rdata.to_text() of the A answers; resolve() raises on an empty answer
AAnswers == {<<"10.0.0.2">>, <<"10.0.0.2", "10.0.0.1">>}
\* answers[0].target.to_text() of the CNAME answer
CnameTargets == {NameBADot, NameCADot, RootDot}

-----------------------------------------------------------------------------
(* dns_checks, one step per statement that reads the network or writes     *)
(* result["errors"] or result["ok"].  The outer handler of lines 49-51 has *)
(* nothing to catch: both resolver calls sit in their own try blocks and   *)
(* the remaining statements are list and string operations on str values.  *)

\* bool(x) of an optional string: None and "" are false
Truthy(opt) == opt # None /\ opt[1] # EmptyStr

\* result["cname"] or ""
OrEmpty(opt) == IF Truthy(opt) THEN opt[1] ELSE EmptyStr

InSeq(x, list) == \E i \in 1..Len(list) : list[i] = x

FreshDnsResult ==
    [ok |-> TRUE, a_records |-> <<>>, cname |-> None,
     errors |-> <<>>, notes |-> <<>>]

DnsPcs == {"dns_13", "dns_20", "dns_26", "dns_27", "dns_28", "dns_31",
           "dns_35", "dns_36", "dns_39", "dns_45", "dns_47", "dns_53"}

dnsFrame == <<domain, expected_ip, expected_cname, head_outcome, https_res,
              peer, cert_res, data, cov_d, cov_san, cov_out>>

\* index, lines 136-141: a POST whose domain is empty after strip()
IndexEmptyDomain ==
    /\ pc = "start"
    /\ \E ip \in ExpectedIps, cn \in ExpectedCnames :
          /\ domain' = EmptyStr
          /\ expected_ip' = ip
          /\ expected_cname' = cn
    /\ data' = [error |-> "Please enter a domain."]
    /\ pc' = "done"
    /\ UNCHANGED <<a_lookup, cname_lookup, dns_res, head_outcome, https_res,
                   peer, cert_res, cov_d, cov_san, cov_out>>

\* index, lines 136-143, entering dns_checks (line 9)
IndexCallDns ==
    /\ pc = "start"
    /\ \E d \in Domains \ {EmptyStr}, ip \in ExpectedIps, cn \in ExpectedCnames :
          /\ domain' = d
          /\ expected_ip' = ip
          /\ expected_cname' = cn
    /\ dns_res' = FreshDnsResult
    /\ pc' = "dns_13"
    /\ UNCHANGED <<a_lookup, cname_lookup, head_outcome, https_res, peer,
                   cert_res, data, cov_d, cov_san, cov_out>>

\* lines 12-16
DnsResolveA ==
    /\ pc = "dns_13"
    /\ \/ /\ a_lookup' = "failed"
          /\ dns_res' = [dns_res EXCEPT !.a_records = <<>>]
       \/ \E answers \in AAnswers :
             /\ a_lookup' = "answered"
             /\ dns_res' = [dns_res EXCEPT !.a_records = answers]
    /\ pc' = "dns_20"
    /\ UNCHANGED <<cname_lookup>>
    /\ UNCHANGED dnsFrame

\* lines 19-24
DnsResolveCname ==
    /\ pc = "dns_20"
    /\ \/ /\ cname_lookup' = "failed"
          /\ dns_res' = [dns_res EXCEPT !.cname = None]
       \/ \E target \in CnameTargets :
             /\ cname_lookup' = "answered"
             /\ dns_res' = [dns_res EXCEPT !.cname = Some(RStripDot(target))]
    /\ pc' = "dns_26"
    /\ UNCHANGED <<a_lookup>>
    /\ UNCHANGED dnsFrame

\* the test of line 26 with "or" in place of "and"
NoRecords_Or(r) == r.a_records = <<>> \/ ~Truthy(r.cname)

\* line 26: not result["a_records"] and not result["cname"]
NoRecords(r) == r.a_records = <<>> /\ ~Truthy(r.cname)

\* line 26
DnsNoRecordsTest ==
    /\ pc = "dns_26"
    /\ pc' = IF NoRecords(dns_res) THEN "dns_27" ELSE "dns_31"
    /\ UNCHANGED <<a_lookup, cname_lookup, dns_res>>
    /\ UNCHANGED dnsFrame

\* line 27
DnsNoRecordsAppend ==
    /\ pc = "dns_27"
    /\ dns_res' = [dns_res EXCEPT !.errors =
                     Append(@, Msg("No A or CNAME records found for", domain))]
    /\ pc' = "dns_28"
    /\ UNCHANGED <<a_lookup, cname_lookup>>
    /\ UNCHANGED dnsFrame

\* line 28
DnsNoRecordsFail ==
    /\ pc = "dns_28"
    /\ dns_res' = [dns_res EXCEPT !.ok = FALSE]
    /\ pc' = "dns_31"
    /\ UNCHANGED <<a_lookup, cname_lookup>>
    /\ UNCHANGED dnsFrame

\* lines 31-34
DnsExpectedIp ==
    /\ pc = "dns_31"
    /\ IF expected_ip = ""
       THEN pc' = "dns_39" /\ UNCHANGED dns_res
       ELSE IF InSeq(expected_ip, dns_res.a_records)
            THEN /\ dns_res' = [dns_res EXCEPT !.notes =
                      Append(@, Msg("Expected IP present in A records.",
                                    expected_ip))]
                 /\ pc' = "dns_39"
            ELSE pc' = "dns_35" /\ UNCHANGED dns_res
    /\ UNCHANGED <<a_lookup, cname_lookup>>
    /\ UNCHANGED dnsFrame

\* line 35
DnsIpMismatchAppend ==
    /\ pc = "dns_35"
    /\ dns_res' = [dns_res EXCEPT !.errors =
                     Append(@, Msg("Expected IP NOT found in A records.",
                                   expected_ip))]
    /\ pc' = "dns_36"
    /\ UNCHANGED <<a_lookup, cname_lookup>>
    /\ UNCHANGED dnsFrame

\* line 36
DnsIpMismatchFail ==
    /\ pc = "dns_36"
    /\ dns_res' = [dns_res EXCEPT !.ok = FALSE]
    /\ pc' = "dns_39"
    /\ UNCHANGED <<a_lookup, cname_lookup>>
    /\ UNCHANGED dnsFrame

\* lines 40-42: the comparison of the normalised names
CnameMatches(found, expected) == RStripDot(OrEmpty(found)) = RStripDot(expected)

\* line 45: result["cname"] if result["cname"] else "none"
FoundText(found) == IF Truthy(found) THEN found[1] ELSE <<"n", "o", "n", "e">>

\* lines 39-44 with the flag raised again when the CNAME matches
DnsExpectedCname_Reset ==
    /\ pc = "dns_39"
    /\ IF expected_cname = EmptyStr
       THEN pc' = "dns_53" /\ UNCHANGED dns_res
       ELSE IF CnameMatches(dns_res.cname, expected_cname)
            THEN /\ dns_res' = [dns_res EXCEPT
                      !.notes = Append(@, Msg("CNAME matches expected",
                                              expected_cname)),
                      !.ok = TRUE]
                 /\ pc' = "dns_53"
            ELSE pc' = "dns_45" /\ UNCHANGED dns_res
    /\ UNCHANGED <<a_lookup, cname_lookup>>
    /\ UNCHANGED dnsFrame

\* lines 39-44
DnsExpectedCname ==
    /\ pc = "dns_39"
    /\ IF expected_cname = EmptyStr
       THEN pc' = "dns_53" /\ UNCHANGED dns_res
       ELSE IF CnameMatches(dns_res.cname, expected_cname)
            THEN /\ dns_res' = [dns_res EXCEPT !.notes =
                      Append(@, Msg("CNAME matches expected", expected_cname))]
                 /\ pc' = "dns_53"
            ELSE pc' = "dns_45" /\ UNCHANGED dns_res
    /\ UNCHANGED <<a_lookup, cname_lookup>>
    /\ UNCHANGED dnsFrame

\* lines 45-46
DnsCnameMismatchAppend ==
    /\ pc = "dns_45"
    /\ dns_res' = [dns_res EXCEPT !.errors =
                     Append(@, Msg("CNAME does not match expected. Found:",
                                   FoundText(dns_res.cname)))]
    /\ pc' = "dns_47"
    /\ UNCHANGED <<a_lookup, cname_lookup>>
    /\ UNCHANGED dnsFrame

\* line 47
DnsCnameMismatchFail ==
    /\ pc = "dns_47"
    /\ dns_res' = [dns_res EXCEPT !.ok = FALSE]
    /\ pc' = "dns_53"
    /\ UNCHANGED <<a_lookup, cname_lookup>>
    /\ UNCHANGED dnsFrame

\* line 53, back in index at line 144
DnsReturn ==
    /\ pc = "dns_53"
    /\ pc' = "https"
    /\ UNCHANGED <<a_lookup, cname_lookup, dns_res>>
    /\ UNCHANGED dnsFrame

-----------------------------------------------------------------------------
(* https_check *)

\* final status codes of the HEAD request, redirects followed
StatusCodes == {200, 400, 404}

\* what requests.head does: a response, an exception derived from
\* requests.RequestException, or an exception of another class
HeadOutcomes ==
    [kind : {"response"}, status : StatusCodes, exc : {""}]
    \cup [kind : {"request_exception"}, status : {0}, exc : {"ConnectionError"}]
    \cup [kind : {"other_exception"}, status : {0}, exc : {"UnicodeError"}]

FreshHttpsResult == [ok |-> TRUE, status |-> None, errors |-> <<>>]

\* lines 59-62 with > in place of >=
https_response_Gt(status) ==
    IF status > 400
    THEN [ok |-> FALSE, status |-> Some(status),
          errors |-> <<Msg("HTTPS endpoint returned HTTP", status)>>]
    ELSE [FreshHttpsResult EXCEPT !.status = Some(status)]

\* lines 59-62
https_response(status) ==
    IF status >= 400
    THEN [ok |-> FALSE, status |-> Some(status),
          errors |-> <<Msg("HTTPS endpoint returned HTTP", status)>>]
    ELSE [FreshHttpsResult EXCEPT !.status = Some(status)]

\* lines 63-65
https_request_failed(exc) ==
    [FreshHttpsResult EXCEPT !.ok = FALSE,
        !.errors = <<Msg("curl/requests failed to connect", exc)>>]

httpsFrame == <<domain, expected_ip, expected_cname, a_lookup, cname_lookup,
                dns_res, peer, cert_res, data, cov_d, cov_san, cov_out>>

\* index line 144, https_check lines 55-66: the request returns or raises a
\* RequestException
HttpsCheck ==
    /\ pc = "https"
    /\ \E o \in HeadOutcomes :
          /\ o.kind # "other_exception"
          /\ head_outcome' = o
          /\ https_res' = IF o.kind = "response"
                          THEN https_response(o.status)
                          ELSE https_request_failed(o.exc)
    /\ pc' = "cert"
    /\ UNCHANGED httpsFrame

\* https_check lines 57-63: an exception that is no RequestException passes
\* the except clause, leaves https_check and leaves index at line 144
HttpsCheckRaises ==
    /\ pc = "https"
    /\ \E o \in HeadOutcomes :
          /\ o.kind = "other_exception"
          /\ head_outcome' = o
    /\ pc' = "crashed"
    /\ UNCHANGED https_res
    /\ UNCHANGED httpsFrame

-----------------------------------------------------------------------------
(* cert_check *)

\* the instant in notAfter, in ticks after the instant utcnow() returns
DeltaRange == (0 - MaxDelta)..MaxDelta

\* cert["notAfter"]: absent, or a text that strptime parses or rejects
NoNotAfter == [present |-> FALSE, parses |-> FALSE, delta |-> 0]
NotAfters ==
    {NoNotAfter}
    \cup {[present |-> TRUE, parses |-> FALSE, delta |-> MaxDelta]}
    \cup [present : {TRUE}, parses : {TRUE}, delta : DeltaRange]

IpSan == <<"1">>
\* entries of cert["subjectAltName"]
SanEntries == {<<"DNS", WildA>>, <<"DNS", NameBA>>, <<"IP Address", IpSan>>}
\* cert["subjectAltName"], None when the key is missing
SubjectAltNames == {None} \cup {Some(l) : l \in SeqsUpTo(SanEntries, MaxSans)}

\* cert["subject"], a tuple of RDNs, each a tuple of (key, value) pairs
Subjects ==
    {None,
     Some(<< << <<"organizationName", NameA>> >> >>),
     Some(<< << <<"commonName", NameBA>> >>, << <<"commonName", WildA>> >> >>),
     Some(<< << <<"commonName", NameA>>, <<"commonName", NameBA>> >> >>)}

Certs == [notAfter : NotAfters, subjectAltName : SubjectAltNames,
          subject : Subjects]

NoCert == [notAfter |-> NoNotAfter, subjectAltName |-> None, subject |-> None]

\* what the connection of lines 79-82 meets: no TCP connection, a server
\* whose chain the default context does not trust, or a server with a trusted
\* chain; elapsed is the time from the handshake to utcnow() at line 90, which
\* decides anything only for a notAfter that lies before utcnow()
Peers ==
    {[connected |-> FALSE, trusted |-> FALSE, cert |-> NoCert, elapsed |-> 0]}
    \cup [connected : {TRUE}, trusted : {FALSE},
          cert : {c \in Certs : c.subject = None /\ c.subjectAltName = None},
          elapsed : {0}]
    \cup {p \in [connected : {TRUE}, trusted : {TRUE}, cert : Certs,
                  elapsed : 0..MaxElapsed] :
             p.elapsed > 0 => (p.cert.notAfter.present /\ p.cert.notAfter.delta < 0)}

\* [v for (k, v) in cert["subjectAltName"] if k == "DNS"]
RECURSIVE DnsNames(_)
DnsNames(entries) ==
    IF entries = <<>> THEN <<>>
    ELSE IF Head(entries)[1] = "DNS"
         THEN <<Head(entries)[2]>> \o DnsNames(Tail(entries))
         ELSE DnsNames(Tail(entries))

\* lines 106-109: the first commonName of one RDN, if it has one
RECURSIVE FirstCommonName(_)
FirstCommonName(rdn) ==
    IF rdn = <<>> THEN None
    ELSE IF Head(rdn)[1] = "commonName" THEN Some(Head(rdn)[2])
         ELSE FirstCommonName(Tail(rdn))

\* lines 105-109: break leaves the inner loop only, so every RDN is visited
\* and the last one that has a commonName sets sans
RECURSIVE CommonNameSans(_, _)
CommonNameSans(subject, sans) ==
    IF subject = <<>> THEN sans
    ELSE LET cn == FirstCommonName(Head(subject))
         IN CommonNameSans(Tail(subject), IF cn = None THEN sans ELSE cn)

\* lines 100-110
SansOf(cert) ==
    LET sans == IF cert.subjectAltName # None
                THEN DnsNames(cert.subjectAltName[1])
                ELSE <<>>
    IN IF sans = <<>> /\ cert.subject # None
       THEN CommonNameSans(cert.subject[1], sans)
       ELSE sans

\* every commonName of the subject
RECURSIVE AllCommonNames(_)
AllCommonNames(subject) ==
    IF subject = <<>> THEN <<>>
    ELSE DnsNames([i \in 1..Len(Head(subject)) |->
                     IF Head(subject)[i][1] = "commonName"
                     THEN <<"DNS", Head(subject)[i][2]>>
                     ELSE Head(subject)[i]])
         \o AllCommonNames(Tail(subject))

\* host name matching of the TLS library: equal names, or a wildcard in the
\* left-most label standing for exactly one non-empty label
LibMatch(d, name) ==
    \/ name = d
    \/ /\ StartsWithStarDot(name)
       /\ EndsWith(d, Tail(name))
       /\ Len(d) > Len(Tail(name))
       /\ CountDots(d) = CountDots(Tail(name))

\* check_hostname of ssl.create_default_context(): the DNS names of the
\* certificate, or the subject's common names when it has no DNS name
HostnameVerified(d, cert) ==
    LET sanNames == IF cert.subjectAltName # None
                    THEN DnsNames(cert.subjectAltName[1]) ELSE <<>>
        names == IF sanNames # <<>> THEN sanNames
                 ELSE IF cert.subject # None
                      THEN AllCommonNames(cert.subject[1]) ELSE <<>>
    IN \E i \in 1..Len(names) : LibMatch(d, names[i])

\* verify_mode CERT_REQUIRED of ssl.create_default_context(): a certificate
\* whose notAfter lies before the time of the handshake is rejected
ExpiredAtHandshake(p) ==
    p.cert.notAfter.present /\ p.cert.notAfter.delta + p.elapsed < 0

\* lines 79-82 return a certificate
HandshakeOk(d, p) ==
    /\ p.connected
    /\ p.trusted
    /\ ~ExpiredAtHandshake(p)
    /\ HostnameVerified(d, p.cert)

FreshCertResult ==
    [ok |-> TRUE, not_after |-> None, days_left |-> None, sans |-> <<>>,
     covers_domain |-> FALSE, errors |-> <<>>, warnings |-> <<>>]

\* lines 127-129
CertFailed(r, exc) ==
    [r EXCEPT !.ok = FALSE,
              !.errors = Append(@, Msg("openssl/SSL failed", exc))]

\* timedelta.days of (dt - utcnow()): the floor of the difference in days
DaysLeft(delta) == delta \div TicksPerDay

\* lines 87-94, notAfter present and parsed
ExpiryStage(r, na) ==
    LET days == DaysLeft(na.delta)
        r1 == [r EXCEPT !.not_after = Some(na), !.days_left = Some(days)]
    IN IF days < 0
       THEN [r1 EXCEPT !.ok = FALSE,
                !.errors = Append(@, Msg("Certificate has expired.", ""))]
       ELSE r1

\* lines 95-97
NoExpiryStage(r) ==
    [r EXCEPT !.ok = FALSE,
              !.errors = Append(@, Msg("No certificate end date present.", ""))]

\* lines 99-125 with line 124 left out
CoverStage_KeepOk(r, d, cert) ==
    LET sans == SansOf(cert)
        cov == AnyCovers(d, sans)
        r1 == [r EXCEPT !.sans = sans, !.covers_domain = cov]
    IN IF ~cov
       THEN [r1 EXCEPT
                !.errors = Append(@, Msg("Certificate does NOT cover domain", d))]
       ELSE r1

\* lines 99-125
CoverStage(r, d, cert) ==
    LET sans == SansOf(cert)
        cov == AnyCovers(d, sans)
        r1 == [r EXCEPT !.sans = sans, !.covers_domain = cov]
    IN IF ~cov
       THEN [r1 EXCEPT !.ok = FALSE,
                !.errors = Append(@, Msg("Certificate does NOT cover domain", d))]
       ELSE r1

\* cert_check, lines 68-131
cert_check(d, p) ==
    IF ~p.connected THEN CertFailed(FreshCertResult, "OSError")
    ELSE IF ~HandshakeOk(d, p)
    THEN CertFailed(FreshCertResult, "SSLCertVerificationError")
    ELSE LET na == p.cert.notAfter
         IN IF na.present /\ ~na.parses
            THEN CertFailed([FreshCertResult EXCEPT !.not_after = Some(na)],
                            "ValueError")
            ELSE CoverStage(IF na.present
                            THEN ExpiryStage(FreshCertResult, na)
                            ELSE NoExpiryStage(FreshCertResult),
                            d, p.cert)

\* index line 145
CertCheck ==
    /\ pc = "cert"
    /\ \E p \in Peers :
          /\ peer' = p
          /\ cert_res' = cert_check(domain, p)
    /\ pc' = "report"
    /\ UNCHANGED <<domain, expected_ip, expected_cname, a_lookup, cname_lookup,
                   dns_res, head_outcome, https_res, data,
                   cov_d, cov_san, cov_out>>

-----------------------------------------------------------------------------
(* index: the verdict and the report *)

\* line 146 with the certificate result left out
OkAll_NoCert(d, h, c) == d.ok /\ h.ok

\* line 146
OkAll(d, h, c) == d.ok /\ h.ok /\ c.ok

\* lines 146-155
IndexReport ==
    /\ pc = "report"
    /\ data' = [domain |-> domain, expected_ip |-> expected_ip,
                expected_cname |-> expected_cname, dns |-> dns_res,
                https |-> https_res, cert |-> cert_res,
                ok_all |-> OkAll(dns_res, https_res, cert_res)]
    /\ pc' = "done"
    /\ UNCHANGED <<domain, expected_ip, expected_cname, a_lookup, cname_lookup,
                   dns_res, head_outcome, https_res, peer, cert_res,
                   cov_d, cov_san, cov_out>>

-----------------------------------------------------------------------------
(* One POST request handled by index *)

Init ==
    /\ pc = "start"
    /\ domain = EmptyStr
    /\ expected_ip = ""
    /\ expected_cname = EmptyStr
    /\ a_lookup = "pending"
    /\ cname_lookup = "pending"
    /\ dns_res = None
    /\ head_outcome = None
    /\ https_res = None
    /\ peer = None
    /\ cert_res = None
    /\ data = None
    /\ cov_d = EmptyStr
    /\ cov_san = EmptyStr
    /\ cov_out = None

Next ==
    \/ IndexEmptyDomain
    \/ IndexCallDns
    \/ DnsResolveA
    \/ DnsResolveCname
    \/ DnsNoRecordsTest
    \/ DnsNoRecordsAppend
    \/ DnsNoRecordsFail
    \/ DnsExpectedIp
    \/ DnsIpMismatchAppend
    \/ DnsIpMismatchFail
    \/ DnsExpectedCname
    \/ DnsCnameMismatchAppend
    \/ DnsCnameMismatchFail
    \/ DnsReturn
    \/ HttpsCheck
    \/ HttpsCheckRaises
    \/ CertCheck
    \/ IndexReport

Spec == Init /\ [][Next]_vars

-----------------------------------------------------------------------------
(* covers() applied to arbitrary names *)

\* characters of the queried domain and of the SAN entry
DomainChars == {"a", "b", "."}
SanChars == {"a", ".", "*"}

InitCovers ==
    /\ pc = "covers"
    /\ domain = EmptyStr
    /\ expected_ip = ""
    /\ expected_cname = EmptyStr
    /\ a_lookup = "pending"
    /\ cname_lookup = "pending"
    /\ dns_res = None
    /\ head_outcome = None
    /\ https_res = None
    /\ peer = None
    /\ cert_res = None
    /\ data = None
    /\ cov_d \in SeqsUpTo(DomainChars, MaxDomainLen)
    /\ cov_san \in SeqsUpTo(SanChars, MaxSanLen)
    /\ cov_out = None

\* line 122, one evaluation of covers(domain, s)
CallCovers ==
    /\ pc = "covers"
    /\ cov_out = None
    /\ cov_out' = Some(covers(cov_d, cov_san))
    /\ UNCHANGED <<cov_d, cov_san>>
    /\ UNCHANGED reqVars

NextCovers == CallCovers

SpecCovers == InitCovers /\ [][NextCovers]_vars

-----------------------------------------------------------------------------
(* Properties *)

\* dns_checks has been entered
DnsStarted == pc \in DnsPcs \cup {"https", "cert", "report", "done", "crashed"}
                 /\ domain # EmptyStr
\* dns_checks has returned
DnsReturned == pc \in {"https", "cert", "report", "done", "crashed"}
\* https_check has returned a result
HttpsReturned == pc \in {"cert", "report", "done"} /\ domain # EmptyStr
\* cert_check has returned
CertReturned == pc \in {"report", "done"} /\ domain # EmptyStr
\* index has built the report
ReportBuilt == pc = "done" /\ domain # EmptyStr

\* C1: the report's ok_all is true exactly when the ok flags of the DNS,
\* HTTPS and certificate results are all true, the report carries the three
\* results the checkers returned, and no report exists before all three
\* checkers have returned.
C1_VerdictIsConjunction ==
    /\ ReportBuilt =>
          /\ data.dns = dns_res /\ data.https = https_res /\ data.cert = cert_res
          /\ data.ok_all = TRUE <=>
                (dns_res.ok = TRUE /\ https_res.ok = TRUE /\ cert_res.ok = TRUE)
    /\ (pc # "done") => data = None

C1_Witness ==
    /\ ReportBuilt
    /\ dns_res.ok /\ https_res.ok /\ ~cert_res.ok
    /\ data.ok_all = FALSE

\* C2: whenever the call a checker makes fails (both DNS lookups raise, the
\* HEAD request raises any exception, the TLS connection or handshake fails)
\* the checker returns ok = false with at least one error, and the request
\* never ends with an exception instead of a report.
C2_NoExceptionEscapes ==
    /\ pc # "crashed"
    /\ (DnsReturned /\ domain # EmptyStr
            /\ a_lookup = "failed" /\ cname_lookup = "failed") =>
          (~dns_res.ok /\ dns_res.errors # <<>>)
    /\ (HttpsReturned /\ head_outcome.kind # "response") =>
          (~https_res.ok /\ https_res.errors # <<>>)
    /\ (CertReturned /\ ~HandshakeOk(domain, peer)) =>
          (~cert_res.ok /\ cert_res.errors # <<>>)

\* a host name without empty labels
NoEmptyLabel(d) ==
    /\ d # <<>>
    /\ d[1] # "." /\ d[Len(d)] # "."
    /\ \A i \in 1..(Len(d) - 1) : ~(d[i] = "." /\ d[i + 1] = ".")

\* d is one non-empty label without a dot, followed by san without its "*"
OneLabelUnder(d, san) ==
    /\ StartsWithStarDot(san)
    /\ Len(san) > 2
    /\ Len(d) > Len(san) - 1
    /\ EndsWith(d, Tail(san))
    /\ CountDots(SubSeq(d, 1, Len(d) - (Len(san) - 1))) = 0

\* C3: for a non-empty suffix S and a non-empty label L without a dot,
\* covers("L.S", "*.S") is true.
C3_WildcardCoversOneLabel ==
    (cov_out # None /\ NoEmptyLabel(cov_d) /\ OneLabelUnder(cov_d, cov_san))
        => cov_out = Some(TRUE)

\* C4: a domain that the wildcard entry "*.S" covers is one non-empty label
\* without a dot followed by ".S"; neither S itself nor a name with two or
\* more labels before ".S" is covered.
C4_WildcardCoversOnlyOneLabel ==
    (cov_out = Some(TRUE) /\ NoEmptyLabel(cov_d)
        /\ StartsWithStarDot(cov_san) /\ Len(cov_san) > 2)
        => OneLabelUnder(cov_d, cov_san)

\* C5: when the server presents a certificate (of a trusted chain, naming
\* the host) whose notAfter is present and parses, the result has not_after
\* set and days_left = floor((expiry - now) / one day), and it carries
\* "Certificate has expired." with ok = false exactly when days_left < 0.
C5_ExpiredCertReported ==
    (CertReturned /\ peer.connected /\ peer.trusted
        /\ HostnameVerified(domain, peer.cert)
        /\ peer.cert.notAfter.present /\ peer.cert.notAfter.parses)
    => LET days == peer.cert.notAfter.delta \div TicksPerDay
       IN /\ cert_res.not_after = Some(peer.cert.notAfter)
          /\ cert_res.days_left = Some(days)
          /\ HasMsg(cert_res.errors, "Certificate has expired.") <=> (days < 0)
          /\ (days < 0) => ~cert_res.ok

\* cert_check caught an exception (lines 127-129)
CertRaised == HasMsg(cert_res.errors, "openssl/SSL failed")

\* the message of line 125 for the queried domain
HasNotCovered ==
    \E i \in 1..Len(cert_res.errors) :
        /\ cert_res.errors[i].msg = "Certificate does NOT cover domain"
        /\ cert_res.errors[i].arg = domain

\* covers_domain agrees with the returned sans list
CoversAgreesWithSans ==
    cert_res.covers_domain = TRUE <=>
        (\E i \in 1..Len(cert_res.sans) : covers(domain, cert_res.sans[i]))

\* the returned sans are the DNS names of subjectAltName or, when there is
\* none, at most one common name of the subject
SansFromCertificate ==
    LET dnsNames == IF peer.cert.subjectAltName # None
                    THEN DnsNames(peer.cert.subjectAltName[1]) ELSE <<>>
        cns == IF peer.cert.subject # None
               THEN AllCommonNames(peer.cert.subject[1]) ELSE <<>>
    IN IF dnsNames # <<>> THEN cert_res.sans = dnsNames
       ELSE /\ Len(cert_res.sans) <= 1
            /\ (cert_res.sans = <<>>) <=> (cns = <<>>)
            /\ \A i \in 1..Len(cert_res.sans) : InSeq(cert_res.sans[i], cns)

\* C6 as stated: covers_domain is true exactly when an entry of the returned
\* sans covers the domain, and every result with covers_domain = false has
\* ok = false and the "does NOT cover" error, also after a caught failure.
C6_NotCoveredAlwaysReported ==
    CertReturned =>
        /\ CoversAgreesWithSans
        /\ ~cert_res.covers_domain => (~cert_res.ok /\ HasNotCovered)

\* C6 amended: covers_domain is true exactly when an entry of the returned
\* sans covers the domain; a result returned without a caught exception
\* holds the certificate's DNS names (or one common name) and, when
\* covers_domain is false, has ok = false and the "does NOT cover" error; a
\* result returned after a caught exception has covers_domain = false,
\* ok = false and the "openssl/SSL failed" error but no "does NOT cover".
C6_NotCoveredReportedUnlessRaised ==
    CertReturned =>
        /\ CoversAgreesWithSans
        /\ ~CertRaised =>
              /\ SansFromCertificate
              /\ ~cert_res.covers_domain => (~cert_res.ok /\ HasNotCovered)
        /\ CertRaised =>
              /\ ~cert_res.covers_domain /\ ~cert_res.ok
              /\ ~HasNotCovered

C6_Witness ==
    /\ CertReturned
    /\ ~CertRaised
    /\ cert_res.sans = <<WildA>>
    /\ domain = NameBA
    /\ ~cert_res.covers_domain /\ ~cert_res.ok /\ HasNotCovered

\* C7: in every result of https_check, ok is false exactly when the request
\* raised or the final status is >= 400; status is None exactly when the
\* request raised and is the final status otherwise; errors is non-empty
\* exactly when ok is false.
C7_HttpsResult ==
    HttpsReturned =>
        LET failed == head_outcome.kind # "response"
        IN /\ https_res.ok = FALSE <=> (failed \/ head_outcome.status >= 400)
           /\ (https_res.status = None) <=> failed
           /\ ~failed => https_res.status = Some(head_outcome.status)
           /\ (https_res.errors # <<>>) <=> (https_res.ok = FALSE)
           /\ Len(https_res.errors) <= 1

C7_Witness ==
    /\ HttpsReturned
    /\ https_res.status = Some(400)
    /\ ~https_res.ok
    /\ Len(https_res.errors) = 1

\* the message of line 27
HasNoRecords == HasMsg(dns_res.errors, "No A or CNAME records found for")

\* the A lookup failed or returned nothing
ANothing == a_lookup = "failed" \/ dns_res.a_records = <<>>
\* the CNAME lookup failed or returned the empty (root) name
CnameNothing == cname_lookup = "failed" \/ dns_res.cname = Some(EmptyStr)

C9_CnameExpectation ==
    (DnsStarted /\ (pc = "dns_53" \/ DnsReturned) /\ expected_cname # EmptyStr)
    => IF /\ cname_lookup = "answered"
          /\ RStripDot(dns_res.cname[1]) = RStripDot(expected_cname)
       THEN /\ HasMsg(dns_res.notes, "CNAME matches expected")
            /\ ~HasMsg(dns_res.errors, "CNAME does not match expected. Found:")
       ELSE /\ HasMsg(dns_res.errors, "CNAME does not match expected. Found:")
            /\ ~dns_res.ok

\* C10 as stated: at every point of dns_checks, ok is false when errors is
\* non-empty.
C10_OkFalseAtEveryPoint ==
    DnsStarted => (dns_res.errors # <<>> => ~dns_res.ok)

\* the statement about to run is one of the assignments ok = False
AtOkFalse == pc \in {"dns_28", "dns_36", "dns_47"}

C10_Inv ==
    /\ (DnsStarted /\ pc = "dns_13") => dns_res.ok
    /\ DnsStarted =>
          /\ (dns_res.errors # <<>> /\ dns_res.ok) => AtOkFalse
          /\ (dns_res.errors = <<>>) => dns_res.ok

C10_NeverBack == (DnsStarted /\ ~dns_res.ok) => ~dns_res'.ok

\* C10 amended: ok starts true and is never set back to true once false; at
\* every point where errors is non-empty, ok is false or the next statement
\* is the assignment ok = False that follows the append; so the returned
\* result has ok = false exactly when errors is non-empty.
C10_OkFollowsErrors == []C10_Inv /\ [][C10_NeverBack]_vars

C10_Witness ==
    /\ DnsStarted /\ pc = "dns_53"
    /\ Len(dns_res.errors) >= 2
    /\ ~dns_res.ok

====
